---- MODULE Spec2Model ----
(***************************************************************************)
(* RK3588 GPIO1_C4 LED driver (rk3588_gpio.rs): a GpioPin handle and the   *)
(* four register stores it issues, over the 16-word register windows at    *)
(* its two base addresses.                                                 *)
(*                                                                         *)
(* A u32 word is the set of its set bit positions (a subset of 0..31), so  *)
(* that all 32 bits are representable.  A usize address is a pair of       *)
(* 16-bit limbs [hi, lo] standing for hi * 65536 + lo, so that the         *)
(* production bases 0xfec20000 and 0xFD5F0000 keep their real values.      *)
(***************************************************************************)
EXTENDS Integers, Naturals, FiniteSets, Sequences, TLC

VARIABLES
    self,    \* the GpioPin struct: pin_num_global, gpio_base, bus_ioc_base
    kind,    \* which constructor built self: "new_led" or "new_led_for_test"
    args,    \* the constructor's arguments: <<>> or <<gpio_base, bus_ioc_base>>
    mem,     \* word address -> u32 word held there (initial content or last store)
    mem0,    \* mem as it was at construction (history)
    reg,     \* word address -> low-16 register content under the write-mask convention
    calls,   \* the operations called so far, in order (history)
    stores   \* the stores issued by the most recent call: [addr, word, width]

vars == <<self, kind, args, mem, mem0, reg, calls, stores>>

\* ------------------------------------------------------------------ bounds
\* number of calls explored per behaviour
MaxCalls == 4
\* prior memory fill patterns 0..MaxPrior
MaxPrior == 3

\* ------------------------------------------------------- u32 / u8 / usize
RECURSIVE BitsFrom(_, _)
BitsFrom(n, i) ==
    IF n = 0 THEN {}
    ELSE (IF n % 2 = 1 THEN {i} ELSE {}) \cup BitsFrom(n \div 2, i + 1)

\* the u32 with numeric value n
U32(n) == {b \in BitsFrom(n, 0) : b <= 31}

\* u32 << n for n < 32: bits shifted past bit 31 are lost
Shl(w, n) == {b + n : b \in {c \in w : c + n <= 31}}

\* u32 | u32
BitOr(a, b) == a \cup b

\* u8 arithmetic of the pin computations (release build: wrapping)
U8Rem(a, b) == a % b
U8Mul(a, b) == (a * b) % 256
U8Add(a, b) == (a + b) % 256
U8Sub(a, b) == (a - b) % 256

\* usize + usize on limbs, with the carry from lo into hi
AddrAdd(a, off) ==
    LET s == a.lo + off
    IN [hi |-> a.hi + (s \div 65536), lo |-> s % 65536]

\* ------------------------------------------------------ program constants
GPIO1_BASE == [hi |-> 65218, lo |-> 0]            \* 0xfec20000
GPIO_SWPORT_DR_H_OFFSET == 4
GPIO_SWPORT_DDR_H_OFFSET == 12
BUS_IOC_BASE == [hi |-> 64863, lo |-> 0]          \* 0xFD5F0000
BUS_IOC_GPIO1C_IOMUX_SEL_H_OFFSET == 52

\* -------------------------------------------------------------- constructors
new_led ==
    [pin_num_global |-> 20, gpio_base |-> GPIO1_BASE, bus_ioc_base |-> BUS_IOC_BASE]

new_led_for_test_swapped(gpio_base, bus_ioc_base) ==
    [pin_num_global |-> 20, gpio_base |-> bus_ioc_base, bus_ioc_base |-> gpio_base]

new_led_for_test(gpio_base, bus_ioc_base) ==
    [pin_num_global |-> 20, gpio_base |-> gpio_base, bus_ioc_base |-> bus_ioc_base]

\* ------------------------------------------------------------------ memory
\* the 16 u32 words of a [u32; 16] buffer (or register window) at base
Region(base) == {AddrAdd(base, 4 * k) : k \in 0..15}

\* index of word a in the window at base
WordIndex(base, a) == CHOOSE k \in 0..15 : AddrAdd(base, 4 * k) = a

\* heap addresses of the Box<[u32; 16]> buffers of the test: two adjacent
\* buffers and one that straddles a 64 KiB boundary
TestBufs ==
    { [hi |-> 16392, lo |-> 0], [hi |-> 16392, lo |-> 64], [hi |-> 16392, lo |-> 65504] }

\* prior content of word k under fill pattern p: p = 0 is the zeroed buffer
\* of the test, p = 1 all ones, p > 1 every p-th bit, phase shifted by k
PriorWord(p, k) ==
    IF p = 0 THEN {} ELSE {b \in 0..31 : (b + k) % p = 0}

\* write-mask convention of the SoC: bits [31:16] of the written word
\* enable the corresponding bits [15:0]
ApplyMasked(old, w) ==
    {b \in 0..15 : IF (b + 16) \in w THEN b \in w ELSE b \in old}

\* ------------------------------------------------------------- construction
InitMem(gpio_base, bus_ioc_base, p, q) ==
    [a \in Region(gpio_base) \cup Region(bus_ioc_base) |->
        IF a \in Region(gpio_base)
        THEN PriorWord(p, WordIndex(gpio_base, a))
        ELSE PriorWord(q, WordIndex(bus_ioc_base, a))]

Init ==
    /\ \/ /\ kind = "new_led"
          /\ args = <<>>
          /\ self = new_led
       \/ /\ kind = "new_led_for_test"
          /\ \E g \in TestBufs, i \in TestBufs :
                /\ g # i
                /\ args = <<g, i>>
                /\ self = new_led_for_test(g, i)
    /\ \E p \in 0..MaxPrior, q \in 0..MaxPrior :
          mem0 = InitMem(IF kind = "new_led" THEN GPIO1_BASE ELSE args[1],
                         IF kind = "new_led" THEN BUS_IOC_BASE ELSE args[2], p, q)
    /\ mem = mem0
    /\ reg = [a \in DOMAIN mem0 |-> {b \in mem0[a] : b <= 15}]
    /\ calls = <<>>
    /\ stores = <<>>

\* ------------------------------------------------------------------ stores
\* a read-modify-write that ORs the word into the old content
write_volatile_rmw(addr, w) ==
    /\ mem' = [mem EXCEPT ![addr] = BitOr(mem[addr], w)]
    /\ reg' = [reg EXCEPT ![addr] = ApplyMasked(reg[addr], BitOr(mem[addr], w))]
    /\ stores' = << [addr |-> addr, word |-> BitOr(mem[addr], w), width |-> 32] >>

\* a read-modify-write that toggles the bits of the word
write_volatile_toggle(addr, w) ==
    LET x == (mem[addr] \cup w) \ (mem[addr] \cap w)
    IN /\ mem' = [mem EXCEPT ![addr] = x]
       /\ reg' = [reg EXCEPT ![addr] = ApplyMasked(reg[addr], x)]
       /\ stores' = << [addr |-> addr, word |-> x, width |-> 32] >>

\* a store through *mut u64: the zero-extended word also covers addr + 4
write_volatile_u64(addr, w) ==
    /\ mem' = [mem EXCEPT ![addr] = w, ![AddrAdd(addr, 4)] = {}]
    /\ reg' = [reg EXCEPT ![addr] = ApplyMasked(reg[addr], w),
                          ![AddrAdd(addr, 4)] = ApplyMasked(reg[AddrAdd(addr, 4)], {})]
    /\ stores' = << [addr |-> addr, word |-> w, width |-> 64] >>

\* core::ptr::write_volatile(addr as *mut u32, w): one blind 32-bit store
write_volatile(addr, w) ==
    /\ mem' = [mem EXCEPT ![addr] = w]
    /\ reg' = [reg EXCEPT ![addr] = ApplyMasked(reg[addr], w)]
    /\ stores' = << [addr |-> addr, word |-> w, width |-> 32] >>

\* a call of operation op is recorded; the handle is borrowed immutably
Called(op) ==
    /\ Len(calls) < MaxCalls
    /\ calls' = Append(calls, op)
    /\ UNCHANGED <<self, kind, args, mem0>>

\* -------------------------------------------------------------- operations
\* the write mask left in the low half-word (the +16 forgotten)
set_function_gpio_low_mask ==
    /\ Called("set_function_gpio")
    /\ LET iomux_reg_addr == AddrAdd(self.bus_ioc_base, BUS_IOC_GPIO1C_IOMUX_SEL_H_OFFSET)
           pin_bit_offset == U8Mul(U8Rem(self.pin_num_global, 4), 4)
           write_mask == Shl(U32(15), pin_bit_offset)
           value == Shl(U32(0), pin_bit_offset)
       IN write_volatile(iomux_reg_addr, BitOr(write_mask, value))

\* the write mask enabling the whole half-word instead of the pin's nibble
set_function_gpio_full_mask ==
    /\ Called("set_function_gpio")
    /\ LET iomux_reg_addr == AddrAdd(self.bus_ioc_base, BUS_IOC_GPIO1C_IOMUX_SEL_H_OFFSET)
           pin_bit_offset == U8Mul(U8Rem(self.pin_num_global, 4), 4)
           write_mask == Shl(U32(65535), U8Add(16, pin_bit_offset))
           value == Shl(U32(0), pin_bit_offset)
       IN write_volatile(iomux_reg_addr, BitOr(write_mask, value))

set_function_gpio ==
    /\ Called("set_function_gpio")
    /\ LET iomux_reg_addr == AddrAdd(self.bus_ioc_base, BUS_IOC_GPIO1C_IOMUX_SEL_H_OFFSET)
           pin_bit_offset == U8Mul(U8Rem(self.pin_num_global, 4), 4)
           write_mask == Shl(U32(15), U8Add(16, pin_bit_offset))
           value == Shl(U32(0), pin_bit_offset)
       IN write_volatile(iomux_reg_addr, BitOr(write_mask, value))

\* the direction value 0 (input) written instead of 1 (output)
set_as_output_input ==
    /\ Called("set_as_output")
    /\ LET ddr_reg_addr == AddrAdd(self.gpio_base, GPIO_SWPORT_DDR_H_OFFSET)
           local_pin_num == U8Sub(self.pin_num_global, 16)
           mask == Shl(U32(1), U8Add(16, local_pin_num))
           value == Shl(U32(0), local_pin_num)
       IN write_volatile(ddr_reg_addr, BitOr(mask, value))

\* the direction word stored at the data register's offset
set_as_output_dr_offset ==
    /\ Called("set_as_output")
    /\ LET ddr_reg_addr == AddrAdd(self.gpio_base, GPIO_SWPORT_DR_H_OFFSET)
           local_pin_num == U8Sub(self.pin_num_global, 16)
           mask == Shl(U32(1), U8Add(16, local_pin_num))
           value == Shl(U32(1), local_pin_num)
       IN write_volatile(ddr_reg_addr, BitOr(mask, value))

set_as_output ==
    /\ Called("set_as_output")
    /\ LET ddr_reg_addr == AddrAdd(self.gpio_base, GPIO_SWPORT_DDR_H_OFFSET)
           local_pin_num == U8Sub(self.pin_num_global, 16)
           mask == Shl(U32(1), U8Add(16, local_pin_num))
           value == Shl(U32(1), local_pin_num)
       IN write_volatile(ddr_reg_addr, BitOr(mask, value))

\* the value stored without its write-enable mask bit
set_high_no_mask ==
    /\ Called("set_high")
    /\ LET dr_reg_addr == AddrAdd(self.gpio_base, GPIO_SWPORT_DR_H_OFFSET)
           local_pin_num == U8Sub(self.pin_num_global, 16)
           value == Shl(U32(1), local_pin_num)
       IN write_volatile(dr_reg_addr, value)

set_high ==
    /\ Called("set_high")
    /\ LET dr_reg_addr == AddrAdd(self.gpio_base, GPIO_SWPORT_DR_H_OFFSET)
           local_pin_num == U8Sub(self.pin_num_global, 16)
           mask == Shl(U32(1), U8Add(16, local_pin_num))
           value == Shl(U32(1), local_pin_num)
       IN write_volatile(dr_reg_addr, BitOr(mask, value))

\* the value bit left at 1, as in set_high
set_low_value_one ==
    /\ Called("set_low")
    /\ LET dr_reg_addr == AddrAdd(self.gpio_base, GPIO_SWPORT_DR_H_OFFSET)
           local_pin_num == U8Sub(self.pin_num_global, 16)
           mask == Shl(U32(1), U8Add(16, local_pin_num))
           value == Shl(U32(1), local_pin_num)
       IN write_volatile(dr_reg_addr, BitOr(mask, value))

set_low ==
    /\ Called("set_low")
    /\ LET dr_reg_addr == AddrAdd(self.gpio_base, GPIO_SWPORT_DR_H_OFFSET)
           local_pin_num == U8Sub(self.pin_num_global, 16)
           mask == Shl(U32(1), U8Add(16, local_pin_num))
           value == Shl(U32(0), local_pin_num)
       IN write_volatile(dr_reg_addr, BitOr(mask, value))

Next ==
    \/ set_function_gpio
    \/ set_as_output
    \/ set_high
    \/ set_low

Spec == Init /\ [][Next]_vars

\* ------------------------------------------------------------------ claims
\* the bases the caller constructed the handle over
BGpio == IF kind = "new_led" THEN [hi |-> 65218, lo |-> 0] ELSE args[1]
BIoc == IF kind = "new_led" THEN [hi |-> 64863, lo |-> 0] ELSE args[2]

\* the three register words, at the offsets 0x0004, 0x000C and 0x0034
DataAddr == AddrAdd(BGpio, 4)
DirAddr == AddrAdd(BGpio, 12)
MuxAddr == AddrAdd(BIoc, 52)

IsTest == kind = "new_led_for_test"
Zeroed == \A a \in DOMAIN mem0 : mem0[a] = {}
Ops == {"set_function_gpio", "set_as_output", "set_high", "set_low"}
WasCalled(op) == \E k \in 1..Len(calls) : calls[k] = op
LastCall == calls[Len(calls)]

\* index of the most recent set_high / set_low call, 0 when there is none
LevelCalls == {k \in 1..Len(calls) : calls[k] \in {"set_high", "set_low"}}
LastLevelIdx == IF LevelCalls = {} THEN 0
                ELSE CHOOSE k \in LevelCalls : \A j \in LevelCalls : j <= k
LastLevel == IF LastLevelIdx = 0 THEN "none" ELSE calls[LastLevelIdx]

TargetOf(op) ==
    IF op = "set_function_gpio" THEN MuxAddr
    ELSE IF op = "set_as_output" THEN DirAddr
    ELSE DataAddr

\* C1: a test instance over two zeroed buffers, after set_function_gpio,
\* set_as_output, set_high, set_low in that order, holds 0x00100000 in the
\* data register word and 0x00100010 in the direction register word.
C1_EndToEnd ==
    (IsTest /\ Zeroed
       /\ calls = <<"set_function_gpio", "set_as_output", "set_high", "set_low">>)
    => /\ mem[DataAddr] = U32(1048576)
       /\ mem[DirAddr] = U32(1048592)

C1_Witness ==
    /\ IsTest /\ Zeroed
    /\ calls = <<"set_function_gpio", "set_as_output", "set_high", "set_low">>
    /\ mem[DataAddr] = {20}

\* C2: once set_high or set_low has been called, the data register word has
\* mask bit 20 set and value bit 4 set exactly when the most recent of those
\* calls was set_high, whatever the word held before.
C2_DataFollowsLastLevel ==
    LastLevel # "none"
    => /\ 20 \in mem[DataAddr]
       /\ (4 \in mem[DataAddr]) <=> (LastLevel = "set_high")

C2_Witness ==
    /\ calls = <<"set_low", "set_as_output", "set_high", "set_function_gpio">>
    /\ mem0[DataAddr] = 0..31
    /\ 4 \in mem[DataAddr]

\* C3: on a test instance, right after set_function_gpio the word at
\* ioc_base + 0x0034 has bits [3:0] clear and mask bits [19:16] set.
C3_MuxWord ==
    (IsTest /\ calls # <<>> /\ LastCall = "set_function_gpio")
    => /\ mem[MuxAddr] \cap (0..3) = {}
       /\ (16..19) \subseteq mem[MuxAddr]

C3_Witness ==
    /\ IsTest /\ calls # <<>> /\ LastCall = "set_function_gpio"
    /\ mem0[MuxAddr] = 0..31
    /\ mem[MuxAddr] # mem0[MuxAddr]

\* C4: on a test instance, right after set_as_output the word at
\* gpio_base + 0x000C has bit 4 set and mask bit 20 set.
C4_DirWord ==
    (IsTest /\ calls # <<>> /\ LastCall = "set_as_output")
    => {4, 20} \subseteq mem[DirAddr]

C4_Witness ==
    /\ IsTest /\ calls # <<>> /\ LastCall = "set_as_output"
    /\ mem0[DirAddr] = {}
    /\ 4 \in mem[DirAddr]

\* C5: calling an operation again right after itself leaves the whole
\* memory exactly as the first call left it.
C5_Idempotent ==
    [][(calls # <<>> /\ calls' = Append(calls, LastCall)) => mem' = mem]_vars

C5_Witness ==
    /\ Len(calls) = 2
    /\ calls[1] = calls[2]
    /\ calls[2] = "set_high"
    /\ mem[DataAddr] # mem0[DataAddr]

\* C6: each operation issues exactly one 32-bit store, to its own register
\* address, and every other word of both regions keeps its content.
C6_OneStoreFrame ==
    [][\A op \in Ops :
         calls' = Append(calls, op)
         => /\ Len(stores') = 1
            /\ stores'[1].width = 32
            /\ stores'[1].addr = TargetOf(op)
            /\ DOMAIN mem' = DOMAIN mem
            /\ \A a \in DOMAIN mem : a # TargetOf(op) => mem'[a] = mem[a]]_vars

C6_Witness ==
    /\ Ops \subseteq {calls[k] : k \in 1..Len(calls)}
    /\ \A a \in DOMAIN mem : a \notin {DataAddr, DirAddr, MuxAddr} => mem[a] = mem0[a]
    /\ \A a \in {DataAddr, DirAddr, MuxAddr} : mem[a] # mem0[a]
    /\ \E a \in DOMAIN mem : a \notin {DataAddr, DirAddr, MuxAddr} /\ mem[a] # {}

\* C7: the handle's fields never differ from what the constructor set: pin
\* index 20; production bases 0xfec20000 and 0xFD5F0000; test bases the
\* caller's values.
C7_HandleFixed ==
    /\ self.pin_num_global = 20
    /\ kind = "new_led"
       => /\ self.gpio_base = [hi |-> 65218, lo |-> 0]
          /\ self.bus_ioc_base = [hi |-> 64863, lo |-> 0]
    /\ kind = "new_led_for_test"
       => /\ self.gpio_base = args[1]
          /\ self.bus_ioc_base = args[2]

C7_Witness ==
    /\ kind = "new_led_for_test"
    /\ args[1].lo = 65504
    /\ Ops \subseteq {calls[k] : k \in 1..Len(calls)}

\* C8: under the write-mask convention every operation changes only the
\* pin's own field of the effective register (mux bits [3:0] to 0, direction
\* bit 4 to 1, data bit 4 to 1 or 0), every other low-16 bit keeps its
\* initial value, and no stored word has a value bit outside its mask.
C8_OwnFieldOnly ==
    /\ LET fn == WasCalled("set_function_gpio")
           out == WasCalled("set_as_output")
           lvl == LastLevel
       IN \A a \in DOMAIN reg :
             LET init == {b \in 0..15 : b \in mem0[a]}
             IN reg[a] =
                   IF a = MuxAddr /\ fn THEN init \ (0..3)
                   ELSE IF a = DirAddr /\ out THEN init \cup {4}
                   ELSE IF a = DataAddr /\ lvl = "set_high" THEN init \cup {4}
                   ELSE IF a = DataAddr /\ lvl = "set_low" THEN init \ {4}
                   ELSE init
    /\ \A k \in 1..Len(stores) :
          /\ \A b \in 0..15 : b \in stores[k].word => (b + 16) \in stores[k].word
          /\ {b \in 16..31 : b \in stores[k].word}
                = IF stores[k].addr = MuxAddr THEN 16..19 ELSE {20}

C8_Witness ==
    /\ Ops \subseteq {calls[k] : k \in 1..Len(calls)}
    /\ mem0[MuxAddr] = 0..31
    /\ mem0[DirAddr] = 0..31
    /\ reg[MuxAddr] = 4..15
    /\ LastLevel = "set_low"
    /\ reg[DataAddr] = (0..15) \ {4}

\* C9: on plain memory the word an operation leaves at its address is a
\* constant independent of the prior content: 0x000F0000 after
\* set_function_gpio, 0x00100010 after set_as_output and set_high,
\* 0x00100000 after set_low.
C9_BlindStore ==
    (IsTest /\ calls # <<>>)
    => mem[TargetOf(LastCall)] =
          IF LastCall = "set_function_gpio" THEN U32(983040)
          ELSE IF LastCall = "set_low" THEN U32(1048576)
          ELSE U32(1048592)

C9_Witness ==
    /\ IsTest /\ calls # <<>> /\ LastCall = "set_function_gpio"
    /\ mem0[MuxAddr] \cap (4..15) # {}
    /\ mem[MuxAddr] = 16..19

\* C10: the memory is a function of the initial memory, of which operations
\* were called and of which of set_high / set_low came last, not of their
\* order or number; from zeroed buffers the mux word is 0 or 0x000F0000
\* (nonzero iff set_function_gpio was called), the direction word 0 or
\* 0x00100010 (nonzero iff set_as_output was called), the data word 0,
\* 0x00100010 or 0x00100000.
C10_OrderIndependent ==
    /\ mem = [a \in DOMAIN mem0 |->
                IF a = MuxAddr /\ WasCalled("set_function_gpio") THEN U32(983040)
                ELSE IF a = DirAddr /\ WasCalled("set_as_output") THEN U32(1048592)
                ELSE IF a = DataAddr /\ LastLevel = "set_high" THEN U32(1048592)
                ELSE IF a = DataAddr /\ LastLevel = "set_low" THEN U32(1048576)
                ELSE mem0[a]]
    /\ Zeroed
       => /\ mem[MuxAddr] \in {U32(0), U32(983040)}
          /\ (mem[MuxAddr] # U32(0)) <=> WasCalled("set_function_gpio")
          /\ mem[DirAddr] \in {U32(0), U32(1048592)}
          /\ (mem[DirAddr] # U32(0)) <=> WasCalled("set_as_output")
          /\ mem[DataAddr] \in {U32(0), U32(1048592), U32(1048576)}

C10_Witness ==
    /\ Zeroed
    /\ calls = <<"set_high", "set_as_output", "set_low", "set_as_output">>
    /\ mem[MuxAddr] = {}
    /\ mem[DirAddr] = {4, 20}

====
